---- MODULE Spec2Model ----
(***************************************************************************)
(* A model of the 1inch gateway code of this repository:                   *)
(*   - OneInchTradingApp (src/unnamed/part_002): the paced, cached client; *)
(*   - handleAPIRequest (src/1inch-api-reference.md): the retry wrapper;   *)
(*   - the proxy endpoints of src/backend-server.js;                       *)
(*   - RateLimitManager (src/1inch-api-reference.md): the request queue;   *)
(*   - OneInchAPI.getSupportedProtocols of src/test-1inch-live.js;         *)
(*   - OneInchSwapComponent (src/unnamed/part_001): the swap form.         *)
(* A behaviour runs one of the programs (variable program, chosen in Init).*)
(* JavaScript runs each handler to its next await without interleaving, so *)
(* one action is the code between two awaits.  Time is the value of        *)
(* Date.now() in milliseconds: an action that reads the clock finds that d *)
(* ms have passed since the clock was last read; a timer fires at or after *)
(* its deadline.                                                           *)
(***************************************************************************)
EXTENDS Integers, Sequences, FiniteSets

VARIABLES
    program,          \* which program this behaviour runs
    input,            \* the arguments the caller passes and the quote body the upstream serves
    now,              \* Date.now()
    lastRequest,      \* OneInchTradingApp.lastRequest
    tokensCache,      \* OneInchTradingApp.tokensCache: << >> is null, <<k>> the list of response k
    tokensCacheTime,  \* OneInchTradingApp.tokensCacheTime
    protocolsCache,   \* OneInchTradingApp.protocolsCache: << >> is null
    protocolsCacheTime, \* OneInchTradingApp.protocolsCacheTime
    wallet,           \* OneInchTradingApp.wallet: null, or the Wallet of a private key
    broadcast,        \* the transactions wallet.sendTransaction signed and sent
    calls,            \* the async calls made on the client instance
    dispatched,       \* the outbound HTTP requests, in dispatch order
    hpc,              \* handleAPIRequest: position
    attempt,          \* handleAPIRequest: loop variable
    lastError,        \* handleAPIRequest: lastError (its status)
    hlog,             \* handleAPIRequest: attempts made and delays waited, in order
    hresult,          \* handleAPIRequest: what the caller receives
    proxy,            \* backend-server: the request being handled
    rateLimiter,      \* RateLimitManager: the instance (interval, lastRequest, queue, processing)
    loops,            \* RateLimitManager: the activations of processQueue, by the execute call that made them
    promises,         \* RateLimitManager: the promise execute returned for each request
    started,          \* RateLimitManager: the request functions called, in order, with the time
    api,              \* OneInchAPI (test script): the getSupportedProtocols call of testProtocols
    component,        \* OneInchSwapComponent: its React state and its debounce timer
    quoteRequests,    \* OneInchSwapComponent: the api.getQuote calls of getQuote, in order
    swapRuns          \* OneInchSwapComponent: the activations of executeSwap, in order

vars == <<program, input, now, lastRequest, tokensCache, tokensCacheTime,
          protocolsCache, protocolsCacheTime, wallet, broadcast, calls,
          dispatched, hpc, attempt, lastError, hlog, hresult, proxy,
          rateLimiter, loops, promises, started, api, component,
          quoteRequests, swapRuns>>

appVars == <<now, lastRequest, tokensCache, tokensCacheTime, protocolsCache,
             protocolsCacheTime, wallet, broadcast, calls, dispatched>>
\* the client's state but the clock
clientVars == <<lastRequest, tokensCache, tokensCacheTime, protocolsCache,
                protocolsCacheTime, wallet, broadcast, calls, dispatched>>
wrapperVars == <<hpc, attempt, lastError, hlog, hresult>>
limiterVars == <<rateLimiter, loops, promises, started>>
\* the state of the programs that came after the client, the wrapper and the proxy
componentVars == <<component, quoteRequests, swapRuns>>
otherVars == <<limiterVars, api, componentVars>>

(***************************************************************************)
(* Bounds of the model.                                                    *)
(***************************************************************************)
MaxCalls == 3
MaxProtocolsCalls == 2
MaxVariantCalls == 2
MaxRequests == 3
MaxWorkflowCalls == 1
MaxWei == 15
MaxMonitors == 1
MaxEdits == 2
MaxSwaps == 2
MaxQuoteRequests == 4
\* options.maxChecks of the monitorPrice call (100 by default)
maxChecks == 2
StartTime == 1000000

(***************************************************************************)
(* Program constants.                                                      *)
(***************************************************************************)
requestInterval == 1000
cacheExpiry == 300000
maxRetries == 3
\* const rateLimiter = new RateLimitManager(1)
requestsPerSecond == 1
\* options.checkInterval of monitorPrice, by default
checkInterval == 30000
\* the status of an error without a status property (error.status is undefined:
\* equal to no HTTP status and below every one of them)
NoStatus == 0

Programs == {"OneInchTradingApp", "handleAPIRequest", "backend-server",
             "RateLimitManager", "OneInchAPI", "OneInchSwapComponent"}
CallIds == 1..MaxCalls

ETH == "0xEeeeeEeeeEeEeeEeEeEeeEEEeeeeEeeeeeeeEEeE"
USDC == "0xa0b86991c6218b36c1d19d4a2e9eb0ce3606eb48"

undefined == "undefined"

(***************************************************************************)
(* JavaScript values passed as amount: null, numbers, bigints, strings.    *)
(***************************************************************************)
JSNull == [t |-> "null", n |-> 0, s |-> ""]
JSNumber(k) == [t |-> "number", n |-> k, s |-> ""]
JSBigInt(k) == [t |-> "bigint", n |-> k, s |-> ""]
JSString(str) == [t |-> "string", n |-> 0, s |-> str]

Digit == <<"0", "1", "2", "3", "4", "5", "6", "7", "8", "9">>

RECURSIVE DecStr(_)
DecStr(k) == IF k < 10 THEN Digit[k + 1] ELSE DecStr(k \div 10) \o Digit[(k % 10) + 1]

\* x.toString()
toString(x) == IF x.t = "string" THEN x.s ELSE DecStr(x.n)

\* the truthiness of x in `if (x)'
Truthy(x) ==
    CASE x.t = "null" -> FALSE
      [] x.t = "string" -> x.s # ""
      [] OTHER -> x.n # 0

(***************************************************************************)
(* The inputs the calls are made with, and what the upstream may answer.   *)
(* A status outside 200..299 makes response.ok false.                      *)
(***************************************************************************)
QuoteArgs == {<<ETH, USDC, JSString("1000000000000000000")>>,
              <<ETH, ETH, JSString("1000000000000000000")>>,
              <<ETH, USDC, JSString("0")>>}
ApprovalAmounts == {JSNull, JSNumber(0), JSString("0"), JSString("100")}

FailureStatuses == {401, 429}
\* fetch rejects (a transport error): there is no response and no status
TransportError == NoStatus
QuoteBodies == {[dstAmount |-> "3868650000", toAmount |-> undefined],
                [dstAmount |-> undefined, toAmount |-> "3868650000"]}
NoBody == [dstAmount |-> undefined, toAmount |-> undefined]

\* buildSwap: the fromAddress argument (missing, empty, malformed, an address)
WalletAddress == "0x52908400098527886E0F7030069857D2E4169EE7"
FromAddresses == {JSNull, JSString(""), JSString("0x123"), JSString(WalletAddress)}

\* the walletPrivateKey argument of the constructor (null by default)
PrivateKey == "0x0123456789012345678901234567890123456789012345678901234567890123"
WalletKeys == {JSNull, JSString(PrivateKey)}

\* an unsigned transaction descriptor, as buildSwap and buildApproval return
TransactionData == [to |-> "0x1111111254EEB25477B68fb85Ed929f73A960582", data |-> "0x12aa3caf",
                    value |-> undefined, gas |-> "210000"]

NoInput == [op |-> "none", src |-> "", dst |-> "", amount |-> JSNull,
            body |-> NoBody, failure |-> 200, from |-> JSNull,
            walletPrivateKey |-> JSNull, confirmExecution |-> FALSE]

\* the triples of A \X B \X C that differ from the triple base in at most one place
OneAtATime(A, B, C, base) ==
    {x \in A \X B \X C :
        Cardinality({i \in 1..3 : x[i] # base[i]}) <= 1}

\* In one behaviour the caller makes calls of one operation, always with the
\* same arguments (the pacing gate does not look at the operation), and the
\* upstream answers each request with 200 or with one failure status.  The
\* arguments, the body and the failure status are varied one at a time (no
\* operation relates them).
Inputs ==
    {[NoInput EXCEPT !.op = "getSupportedTokens", !.failure = f] :
        f \in FailureStatuses \cup {TransportError}}
    \cup
    {[NoInput EXCEPT !.op = "getQuote", !.src = x[1][1], !.dst = x[1][2],
                     !.amount = x[1][3], !.body = x[2], !.failure = x[3]] :
        x \in OneAtATime(QuoteArgs, QuoteBodies, FailureStatuses,
                         <<<<ETH, USDC, JSString("1000000000000000000")>>,
                           [dstAmount |-> "3868650000", toAmount |-> undefined], 401>>)}
    \cup
    {[NoInput EXCEPT !.op = "buildApproval", !.src = USDC, !.amount = x[1],
                     !.failure = x[3]] :
        x \in OneAtATime(ApprovalAmounts, {NoBody}, FailureStatuses,
                         <<JSNull, NoBody, 401>>)}
    \cup
    {[NoInput EXCEPT !.op = "buildSwap", !.src = ETH, !.dst = USDC,
                     !.amount = JSString("1000000000000000000"), !.from = a,
                     !.failure = 401] : a \in FromAddresses}
    \cup
    {[NoInput EXCEPT !.op = "executeTransaction", !.walletPrivateKey = k,
                     !.confirmExecution = x] : k \in WalletKeys, x \in BOOLEAN}
    \cup
    {[NoInput EXCEPT !.op = "getSupportedProtocols", !.failure = 401]}
    \cup
    {[NoInput EXCEPT !.op = "executeSwapWorkflow", !.src = x[1], !.dst = x[2],
                     !.amount = JSString("10"), !.walletPrivateKey = x[3],
                     !.body = [dstAmount |-> "3868650000", toAmount |-> undefined],
                     !.failure = 401] :
        x \in {<<ETH, USDC, JSString(PrivateKey)>>, <<USDC, ETH, JSString(PrivateKey)>>,
               <<USDC, ETH, JSNull>>}}
    \cup
    {[NoInput EXCEPT !.op = "monitorPrice", !.src = ETH, !.dst = USDC,
                     !.amount = JSString("1000000000000000000"),
                     !.body = [dstAmount |-> "3868650000", toAmount |-> undefined],
                     !.failure = f] : f \in {401, TransportError}}

\* the operations that make more than one request
MultiRequestOps == {"getSupportedProtocols", "executeSwapWorkflow", "monitorPrice"}

\* what /approve/allowance may answer for the workflow's amount of 10: less, or
\* just enough
Allowances == {JSString("9"), JSString("10")}

\* the ways a request ends in this behaviour: a response with status 200 or the
\* failure of the behaviour (a response that is not ok, or a transport error)
Statuses == {200, input.failure}

ResponseOk(status) == status >= 200 /\ status <= 299

NoUrl == [path |-> "", query |-> {}]
NoResult == [ok |-> FALSE, status |-> NoStatus, value |-> undefined]

IdleCall == [pc |-> "idle", op |-> "none", src |-> "", dst |-> "", amount |-> JSNull,
             from |-> JSNull,
             t0 |-> 0, wakeAt |-> 0, cached |-> FALSE, age |-> 0, endpoint |-> 0,
             url |-> NoUrl, status |-> NoStatus, result |-> NoResult,
             steps |-> << >>, checks |-> 0]

(***************************************************************************)
(* rateLimitedRequest, up to its first await: either the timer is set or   *)
(* the request is dispatched at once.  c is the call, rec its record with  *)
(* the url already built.                                                  *)
(***************************************************************************)
\* Dispatch stamping lastRequest with the time the call was made (before its
\* wait at the gate) instead of the time of dispatch
DispatchStampingEntry(c, rec) ==
    /\ lastRequest' = rec.t0
    /\ dispatched' = Append(dispatched,
                            [call |-> c, time |-> now', path |-> rec.url.path,
                             query |-> rec.url.query])
    /\ calls' = [calls EXCEPT ![c] = [rec EXCEPT !.pc = "fetching"]]

Dispatch(c, rec) ==
    /\ lastRequest' = now'
    /\ dispatched' = Append(dispatched,
                            [call |-> c, time |-> now', path |-> rec.url.path,
                             query |-> rec.url.query])
    /\ calls' = [calls EXCEPT ![c] = [rec EXCEPT !.pc = "fetching"]]

rateLimitedRequest(c, rec) ==
    LET timeSinceLastRequest == now' - lastRequest IN
    IF timeSinceLastRequest < requestInterval
    THEN /\ calls' = [calls EXCEPT ![c] =
                        [rec EXCEPT !.pc = "sleeping",
                                    !.wakeAt = now' + (requestInterval - timeSinceLastRequest)]]
         /\ UNCHANGED <<lastRequest, dispatched>>
    ELSE Dispatch(c, rec)

\* The calls followed in a behaviour: MaxCalls of them, but MaxVariantCalls when
\* the behaviour varies the arguments or the failure (the other failures of
\* the token list, the other arguments, bodies and failures of getQuote, and
\* buildApproval and buildSwap, which the client treats like getQuote).
CallsFollowed ==
    IF \/ input.op = "getSupportedTokens" /\ input.failure # 401
       \/ input.op = "getQuote"
              /\ <<<<input.src, input.dst, input.amount>>, input.body, input.failure>>
                     # <<<<ETH, USDC, JSString("1000000000000000000")>>,
                         [dstAmount |-> "3868650000", toAmount |-> undefined], 401>>
       \/ input.op \in {"buildApproval", "buildSwap"}
    THEN MaxVariantCalls
    ELSE MaxCalls

\* Calls are made in the order of their ids (the ids are only labels); the
\* first call is made at StartTime (only differences of times matter).
CanInvoke(c, d) ==
    /\ program = "OneInchTradingApp"
    /\ c <= CallsFollowed
    /\ calls[c].pc = "idle"
    /\ IF c = 1 THEN d = 0 ELSE calls[c - 1].pc # "idle"
    /\ now' = now + d

\* CacheFresh with an entry of age cacheExpiry taken as fresh (<= for <)
CacheFreshInclusive(cache, cacheTime, t) ==
    cache # << >> /\ (t - cacheTime) <= cacheExpiry

\* the cache test of getSupportedTokens
CacheFresh(cache, cacheTime, t) == cache # << >> /\ (t - cacheTime) < cacheExpiry

\* getSupportedTokens passing the pacing gate on a cache hit too (the hit
\* counts as a request: lastRequest is set)
getSupportedTokensPacedHit(c, d) ==
    /\ CanInvoke(c, d)
    /\ LET rec == [IdleCall EXCEPT !.op = "getSupportedTokens", !.t0 = now',
                                   !.url = [path |-> "/tokens", query |-> {}]]
       IN IF CacheFresh(tokensCache, tokensCacheTime, now')
          THEN /\ calls' = [calls EXCEPT ![c] =
                              [rec EXCEPT !.pc = "done", !.cached = TRUE,
                                          !.age = now' - tokensCacheTime,
                                          !.result = [ok |-> TRUE, status |-> NoStatus,
                                                      value |-> tokensCache]]]
               /\ lastRequest' = now'
               /\ UNCHANGED dispatched
          ELSE rateLimitedRequest(c, rec)
    /\ UNCHANGED <<program, input, tokensCache, tokensCacheTime>>
    /\ UNCHANGED <<protocolsCache, protocolsCacheTime, wallet, broadcast>>
    /\ UNCHANGED <<wrapperVars, proxy, otherVars>>

getSupportedTokens(c, d) ==
    /\ CanInvoke(c, d)
    /\ LET rec == [IdleCall EXCEPT !.op = "getSupportedTokens", !.t0 = now',
                                   !.url = [path |-> "/tokens", query |-> {}]]
       IN IF CacheFresh(tokensCache, tokensCacheTime, now')
          THEN /\ calls' = [calls EXCEPT ![c] =
                              [rec EXCEPT !.pc = "done", !.cached = TRUE,
                                          !.age = now' - tokensCacheTime,
                                          !.result = [ok |-> TRUE, status |-> NoStatus,
                                                      value |-> tokensCache]]]
               /\ UNCHANGED <<lastRequest, dispatched>>
          ELSE rateLimitedRequest(c, rec)
    /\ UNCHANGED <<program, input, tokensCache, tokensCacheTime>>
    /\ UNCHANGED <<protocolsCache, protocolsCacheTime, wallet, broadcast>>
    /\ UNCHANGED <<wrapperVars, proxy, otherVars>>

\* the query getQuote builds (options = {}: no slippage, protocols or fee)
QuoteQuery(srcToken, dstToken, amount) ==
    {<<"src", srcToken>>, <<"dst", dstToken>>, <<"amount", toString(amount)>>}

getQuote(c, d, srcToken, dstToken, amount) ==
    /\ CanInvoke(c, d)
    /\ rateLimitedRequest(c, [IdleCall EXCEPT !.op = "getQuote", !.t0 = now',
                                 !.src = srcToken, !.dst = dstToken, !.amount = amount,
                                 !.url = [path |-> "/quote",
                                          query |-> QuoteQuery(srcToken, dstToken, amount)]])
    /\ UNCHANGED <<program, input, tokensCache, tokensCacheTime>>
    /\ UNCHANGED <<protocolsCache, protocolsCacheTime, wallet, broadcast>>
    /\ UNCHANGED <<wrapperVars, proxy, otherVars>>

\* ApprovalQuery sending a sentinel amount when none is given
ApprovalQuerySentinel(tokenAddress, amount) ==
    {<<"tokenAddress", tokenAddress>>,
     <<"amount", IF Truthy(amount) THEN toString(amount) ELSE "unlimited">>}

\* the query buildApproval builds
ApprovalQuery(tokenAddress, amount) ==
    {<<"tokenAddress", tokenAddress>>}
        \cup (IF Truthy(amount) THEN {<<"amount", toString(amount)>>} ELSE {})

buildApproval(c, d, tokenAddress, amount) ==
    /\ CanInvoke(c, d)
    /\ rateLimitedRequest(c, [IdleCall EXCEPT !.op = "buildApproval", !.t0 = now',
                                 !.src = tokenAddress, !.amount = amount,
                                 !.url = [path |-> "/approve/transaction",
                                          query |-> ApprovalQuery(tokenAddress, amount)]])
    /\ UNCHANGED <<program, input, tokensCache, tokensCacheTime>>
    /\ UNCHANGED <<protocolsCache, protocolsCacheTime, wallet, broadcast>>
    /\ UNCHANGED <<wrapperVars, proxy, otherVars>>

\* the query buildSwap builds (options = {}: slippage 1, no receiver,
\* allowPartialFill or referrer)
SwapQuery(srcToken, dstToken, amount, fromAddress) ==
    {<<"src", srcToken>>, <<"dst", dstToken>>, <<"amount", toString(amount)>>,
     <<"from", toString(fromAddress)>>, <<"slippage", "1">>}

buildSwap(c, d, srcToken, dstToken, amount, fromAddress) ==
    /\ CanInvoke(c, d)
    /\ LET rec == [IdleCall EXCEPT !.op = "buildSwap", !.t0 = now',
                                   !.src = srcToken, !.dst = dstToken, !.amount = amount,
                                   !.from = fromAddress]
       IN IF ~Truthy(fromAddress)
          THEN /\ calls' = [calls EXCEPT ![c] =
                              [rec EXCEPT !.pc = "done",
                                          !.result = [ok |-> FALSE, status |-> NoStatus,
                                                      value |-> "From address is required for swap building"]]]
               /\ UNCHANGED <<lastRequest, dispatched>>
          ELSE rateLimitedRequest(c, [rec EXCEPT
                                         !.url = [path |-> "/swap",
                                                  query |-> SwapQuery(srcToken, dstToken,
                                                                      amount, fromAddress)]])
    /\ UNCHANGED <<program, input, tokensCache, tokensCacheTime>>
    /\ UNCHANGED <<protocolsCache, protocolsCacheTime, wallet, broadcast>>
    /\ UNCHANGED <<wrapperVars, proxy, otherVars>>

\* new ethers.Wallet(walletPrivateKey, provider): an object (truthy) holding the key
Wallet(walletPrivateKey) == [t |-> "Wallet", n |-> 1, s |-> walletPrivateKey.s]

\* this.wallet, as the constructor sets it
ConstructWallet(walletPrivateKey) ==
    IF Truthy(walletPrivateKey) THEN Wallet(walletPrivateKey) ELSE JSNull

\* the transaction executeTransaction hands to wallet.sendTransaction
TransactionRequest(transactionData) ==
    [to |-> transactionData.to, data |-> transactionData.data,
     value |-> IF transactionData.value = undefined THEN "0" ELSE transactionData.value,
     gasLimit |-> transactionData.gas]

\* executeTransaction sending whether or not options.confirmExecution is set
executeTransactionUnconfirmed(c, transactionData, confirmExecution) ==
    /\ CanInvoke(c, 0)
    /\ LET rec == [IdleCall EXCEPT !.op = "executeTransaction", !.t0 = now'] IN
       IF ~Truthy(wallet)
       THEN /\ calls' = [calls EXCEPT ![c] =
                           [rec EXCEPT !.pc = "done",
                                       !.result = [ok |-> FALSE, status |-> NoStatus,
                                                   value |-> "Wallet is required for executing transactions"]]]
            /\ UNCHANGED broadcast
       ELSE /\ calls' = [calls EXCEPT ![c] = [rec EXCEPT !.pc = "sending"]]
            /\ broadcast' = Append(broadcast,
                                   [call |-> c, signedWith |-> wallet.s,
                                    tx |-> TransactionRequest(transactionData)])
    /\ UNCHANGED <<program, input, lastRequest, dispatched, wallet>>
    /\ UNCHANGED <<tokensCache, tokensCacheTime, protocolsCache, protocolsCacheTime>>
    /\ UNCHANGED <<wrapperVars, proxy, otherVars>>

\* executeTransaction, to its first await: without a wallet it throws, without
\* options.confirmExecution it returns a simulation, else the wallet signs the
\* transaction with its key and sends it
executeTransaction(c, transactionData, confirmExecution) ==
    /\ CanInvoke(c, 0)
    /\ LET rec == [IdleCall EXCEPT !.op = "executeTransaction", !.t0 = now'] IN
       IF ~Truthy(wallet)
       THEN /\ calls' = [calls EXCEPT ![c] =
                           [rec EXCEPT !.pc = "done",
                                       !.result = [ok |-> FALSE, status |-> NoStatus,
                                                   value |-> "Wallet is required for executing transactions"]]]
            /\ UNCHANGED broadcast
       ELSE IF ~confirmExecution
       THEN /\ calls' = [calls EXCEPT ![c] =
                           [rec EXCEPT !.pc = "done",
                                       !.result = [ok |-> TRUE, status |-> NoStatus,
                                                   value |-> "simulated"]]]
            /\ UNCHANGED broadcast
       ELSE /\ calls' = [calls EXCEPT ![c] = [rec EXCEPT !.pc = "sending"]]
            /\ broadcast' = Append(broadcast,
                                   [call |-> c, signedWith |-> wallet.s,
                                    tx |-> TransactionRequest(transactionData)])
    /\ UNCHANGED <<program, input, lastRequest, dispatched, wallet>>
    /\ UNCHANGED <<tokensCache, tokensCacheTime, protocolsCache, protocolsCacheTime>>
    /\ UNCHANGED <<wrapperVars, proxy, otherVars>>

\* an await of executeTransaction settles: wallet.sendTransaction (then the
\* call waits for tx.wait()) or tx.wait() (then it returns the receipt); a
\* rejection of either is thrown on to the caller
TransactionSettles(c, fulfilled) ==
    /\ program = "OneInchTradingApp"
    /\ calls[c].pc \in {"sending", "confirming"}
    /\ calls' = [calls EXCEPT ![c] =
                    IF ~fulfilled
                    THEN [@ EXCEPT !.pc = "done",
                                   !.result = [ok |-> FALSE, status |-> NoStatus,
                                               value |-> "Error"]]
                    ELSE IF @.pc = "sending" THEN [@ EXCEPT !.pc = "confirming"]
                    ELSE [@ EXCEPT !.pc = "done",
                                   !.result = [ok |-> TRUE, status |-> NoStatus,
                                               value |-> "executed"]]]
    /\ UNCHANGED <<program, input, now, lastRequest, dispatched, wallet, broadcast>>
    /\ UNCHANGED <<tokensCache, tokensCacheTime, protocolsCache, protocolsCacheTime>>
    /\ UNCHANGED <<wrapperVars, proxy, otherVars>>

\* the setTimeout of rateLimitedRequest fires, late ms after its deadline (or
\* after the last reading of the clock, if that is later): the request is dispatched
TimerFire(c, late) ==
    /\ program = "OneInchTradingApp"
    /\ calls[c].pc = "sleeping"
    /\ now' = (IF now > calls[c].wakeAt THEN now ELSE calls[c].wakeAt) + late
    /\ Dispatch(c, calls[c])
    /\ UNCHANGED <<program, input, tokensCache, tokensCacheTime>>
    /\ UNCHANGED <<protocolsCache, protocolsCacheTime, wallet, broadcast>>
    /\ UNCHANGED <<wrapperVars, proxy, otherVars>>

\* QuoteResult reading the amount from toAmount, the field of the older API
QuoteResultFromToAmount(result, amount) ==
    [dstAmount |-> result.dstAmount, toAmount |-> result.toAmount,
     outputAmount |-> result.toAmount, inputAmount |-> amount]

\* what getQuote returns for the upstream's result (rate, a float, is left out)
QuoteResult(result, amount) ==
    [dstAmount |-> result.dstAmount, toAmount |-> result.toAmount,
     outputAmount |-> result.dstAmount, inputAmount |-> amount]

\* the index of the request of call c that is in flight
RequestOf(c) == CHOOSE k \in DOMAIN dispatched : dispatched[k].call = c

\* Respond dropping the cached token list when the refresh fails
RespondClearingCache(c, status) ==
    /\ program = "OneInchTradingApp"
    /\ calls[c].pc = "fetching"
    /\ IF ~ResponseOk(status)
       THEN /\ calls' = [calls EXCEPT ![c].pc = "done", ![c].status = status,
                                      ![c].result = [ok |-> FALSE, status |-> status,
                                                     value |-> undefined]]
            /\ tokensCache' = << >>
            /\ tokensCacheTime' = 0
       ELSE CASE calls[c].op = "getSupportedTokens" ->
                   /\ tokensCache' = <<RequestOf(c)>>
                   /\ tokensCacheTime' = calls[c].t0
                   /\ calls' = [calls EXCEPT ![c].pc = "done", ![c].status = status,
                                             ![c].result = [ok |-> TRUE, status |-> status,
                                                            value |-> <<RequestOf(c)>>]]
              [] calls[c].op = "getQuote" ->
                   /\ calls' = [calls EXCEPT ![c].pc = "done", ![c].status = status,
                                             ![c].result =
                                                 [ok |-> TRUE, status |-> status,
                                                  value |-> QuoteResult(input.body, calls[c].amount)]]
                   /\ UNCHANGED <<tokensCache, tokensCacheTime>>
              [] OTHER ->
                   /\ calls' = [calls EXCEPT ![c].pc = "done", ![c].status = status,
                                             ![c].result = [ok |-> TRUE, status |-> status,
                                                            value |-> "tx"]]
                   /\ UNCHANGED <<tokensCache, tokensCacheTime>>
    /\ UNCHANGED <<program, input, now, lastRequest, dispatched>>
    /\ UNCHANGED <<protocolsCache, protocolsCacheTime, wallet, broadcast>>
    /\ UNCHANGED <<wrapperVars, proxy, otherVars>>

(***************************************************************************)
(* The response of the request of call c arrives: rateLimitedRequest       *)
(* throws on a response that is not ok, else the caller's continuation     *)
(* runs (the body read that follows has no effect on the client's state).  *)
(***************************************************************************)
Respond(c, status) ==
    /\ program = "OneInchTradingApp"
    /\ calls[c].pc = "fetching"
    /\ IF ~ResponseOk(status)
       THEN /\ calls' = [calls EXCEPT ![c].pc = "done", ![c].status = status,
                                      ![c].result = [ok |-> FALSE, status |-> status,
                                                     value |-> undefined]]
            /\ UNCHANGED <<tokensCache, tokensCacheTime>>
       ELSE CASE calls[c].op = "getSupportedTokens" ->
                   /\ tokensCache' = <<RequestOf(c)>>
                   /\ tokensCacheTime' = calls[c].t0
                   /\ calls' = [calls EXCEPT ![c].pc = "done", ![c].status = status,
                                             ![c].result = [ok |-> TRUE, status |-> status,
                                                            value |-> <<RequestOf(c)>>]]
              [] calls[c].op = "getQuote" ->
                   /\ calls' = [calls EXCEPT ![c].pc = "done", ![c].status = status,
                                             ![c].result =
                                                 [ok |-> TRUE, status |-> status,
                                                  value |-> QuoteResult(input.body, calls[c].amount)]]
                   /\ UNCHANGED <<tokensCache, tokensCacheTime>>
              [] OTHER ->
                   /\ calls' = [calls EXCEPT ![c].pc = "done", ![c].status = status,
                                             ![c].result = [ok |-> TRUE, status |-> status,
                                                            value |-> "tx"]]
                   /\ UNCHANGED <<tokensCache, tokensCacheTime>>
    /\ UNCHANGED <<program, input, now, lastRequest, dispatched>>
    /\ UNCHANGED <<protocolsCache, protocolsCacheTime, wallet, broadcast>>
    /\ UNCHANGED <<wrapperVars, proxy, otherVars>>

(***************************************************************************)
(* getSupportedProtocols: the endpoints are tried in turn, each through    *)
(* rateLimitedRequest; the first ok response is cached, and when all have  *)
(* failed the mock list is cached and returned.                            *)
(***************************************************************************)
endpoints == <<"/swap/v5.0/1/protocols", "/swap/v4.0/1/protocols",
               "/swap/v3.0/1/protocols">>

mockProtocols == <<"UNISWAP_V2", "UNISWAP_V3", "SUSHISWAP", "CURVE", "BALANCER">>

\* the caller has awaited every call it made (as main does: `await
\* app.getSupportedProtocols()')
AllAwaited == \A b \in CallIds : calls[b].pc \in {"idle", "done"}

getSupportedProtocols(c, d) ==
    /\ c <= MaxProtocolsCalls
    /\ AllAwaited
    /\ CanInvoke(c, d)
    /\ LET rec == [IdleCall EXCEPT !.op = "getSupportedProtocols", !.t0 = now',
                                   !.endpoint = 1,
                                   !.url = [path |-> endpoints[1], query |-> {}]]
       IN IF CacheFresh(protocolsCache, protocolsCacheTime, now')
          THEN /\ calls' = [calls EXCEPT ![c] =
                              [rec EXCEPT !.pc = "done", !.cached = TRUE,
                                          !.age = now' - protocolsCacheTime,
                                          !.endpoint = 0, !.url = NoUrl,
                                          !.result = [ok |-> TRUE, status |-> NoStatus,
                                                      value |-> protocolsCache]]]
               /\ UNCHANGED <<lastRequest, dispatched>>
          ELSE rateLimitedRequest(c, rec)
    /\ UNCHANGED <<program, input, tokensCache, tokensCacheTime>>
    /\ UNCHANGED <<protocolsCache, protocolsCacheTime, wallet, broadcast>>
    /\ UNCHANGED <<wrapperVars, proxy, otherVars>>

\* The request of a getSupportedProtocols call ends.  After a failure the catch
\* block logs it and the loop goes on: the next endpoint enters
\* rateLimitedRequest, which reads the clock (d ms after its last reading).
ProtocolsRespond(c, status, d) ==
    /\ program = "OneInchTradingApp"
    /\ calls[c].pc = "fetching"
    /\ calls[c].op = "getSupportedProtocols"
    /\ IF ResponseOk(status)
       THEN /\ d = 0
            /\ protocolsCache' = <<RequestOf(c)>>
            /\ protocolsCacheTime' = calls[c].t0
            /\ calls' = [calls EXCEPT ![c].pc = "done", ![c].status = status,
                                      ![c].result = [ok |-> TRUE, status |-> status,
                                                     value |-> <<RequestOf(c)>>]]
            /\ UNCHANGED <<now, lastRequest, dispatched>>
       ELSE IF calls[c].endpoint < Len(endpoints)
       THEN /\ now' = now + d
            /\ rateLimitedRequest(c, [calls[c] EXCEPT
                                         !.status = status,
                                         !.endpoint = @ + 1,
                                         !.url = [path |-> endpoints[calls[c].endpoint + 1],
                                                  query |-> {}]])
            /\ UNCHANGED <<protocolsCache, protocolsCacheTime>>
       ELSE /\ d = 0
            /\ protocolsCache' = mockProtocols
            /\ protocolsCacheTime' = calls[c].t0
            /\ calls' = [calls EXCEPT ![c].pc = "done", ![c].status = status,
                                      ![c].result = [ok |-> TRUE, status |-> NoStatus,
                                                     value |-> mockProtocols]]
            /\ UNCHANGED <<now, lastRequest, dispatched>>
    /\ UNCHANGED <<program, input, tokensCache, tokensCacheTime, wallet, broadcast>>
    /\ UNCHANGED <<wrapperVars, proxy, otherVars>>

(***************************************************************************)
(* executeSwapWorkflow: quote, then (for a token other than ETH) the       *)
(* allowance, then the approval transaction or the swap transaction, each  *)
(* request through rateLimitedRequest.                                     *)
(***************************************************************************)
\* BigInt(x) for a decimal string or a number
BigInt(x) ==
    IF x.t = "string" THEN CHOOSE k \in 0..MaxWei : DecStr(k) = x.s ELSE x.n

\* the allowance test never asking for an approval
ApprovalNeededNever(allowance, amount) == FALSE

\* the allowance test of the workflow
ApprovalNeeded(allowance, amount) == BigInt(allowance) < BigInt(amount)

\* the query checkAllowance builds
AllowanceQuery(tokenAddress, walletAddress) ==
    {<<"tokenAddress", tokenAddress>>, <<"walletAddress", walletAddress>>}

\* the workflow's call of buildSwap(srcToken, dstToken, amount, walletAddress, options)
WorkflowBuildSwap(c, rec) ==
    rateLimitedRequest(c, [rec EXCEPT
                              !.from = JSString(WalletAddress),
                              !.url = [path |-> "/swap",
                                       query |-> SwapQuery(rec.src, rec.dst, rec.amount,
                                                           JSString(WalletAddress))]])

executeSwapWorkflow(c, d, srcToken, dstToken, amount) ==
    /\ c <= MaxWorkflowCalls
    /\ AllAwaited
    /\ CanInvoke(c, d)
    /\ LET rec == [IdleCall EXCEPT !.op = "executeSwapWorkflow", !.t0 = now',
                                   !.src = srcToken, !.dst = dstToken, !.amount = amount]
       IN IF ~Truthy(wallet)
          THEN /\ calls' = [calls EXCEPT ![c] =
                              [rec EXCEPT !.pc = "done",
                                          !.result = [ok |-> FALSE, status |-> NoStatus,
                                                      value |-> "Wallet is required for executing transactions"]]]
               /\ UNCHANGED <<lastRequest, dispatched>>
          ELSE rateLimitedRequest(c, [rec EXCEPT
                                         !.url = [path |-> "/quote",
                                                  query |-> QuoteQuery(srcToken, dstToken,
                                                                       amount)]])
    /\ UNCHANGED <<program, input, tokensCache, tokensCacheTime>>
    /\ UNCHANGED <<protocolsCache, protocolsCacheTime, wallet, broadcast>>
    /\ UNCHANGED <<wrapperVars, proxy, otherVars>>

\* The response of a request of the workflow arrives; allowance is the
\* allowance field of the body (read after /approve/allowance only).  A
\* failure is logged and thrown on; else the next request enters
\* rateLimitedRequest, which reads the clock (d ms after its last reading).
WorkflowRespond(c, status, allowance, d) ==
    /\ program = "OneInchTradingApp"
    /\ calls[c].pc = "fetching"
    /\ calls[c].op = "executeSwapWorkflow"
    /\ LET path == calls[c].url.path
           rec == [calls[c] EXCEPT
                      !.status = status,
                      !.steps = Append(@, [path |-> path, status |-> status,
                                           allowance |-> IF path = "/approve/allowance"
                                                         THEN allowance ELSE JSNull])]
       IN IF ~ResponseOk(status)
          THEN /\ d = 0
               /\ calls' = [calls EXCEPT ![c] =
                              [rec EXCEPT !.pc = "done",
                                          !.result = [ok |-> FALSE, status |-> status,
                                                      value |-> undefined]]]
               /\ UNCHANGED <<now, lastRequest, dispatched>>
          ELSE CASE path = "/quote" /\ rec.src # ETH ->
                      /\ now' = now + d
                      /\ rateLimitedRequest(c, [rec EXCEPT
                             !.url = [path |-> "/approve/allowance",
                                      query |-> AllowanceQuery(rec.src, WalletAddress)]])
                 [] path = "/quote" /\ rec.src = ETH ->
                      /\ now' = now + d
                      /\ WorkflowBuildSwap(c, rec)
                 [] path = "/approve/allowance" /\ ApprovalNeeded(allowance, rec.amount) ->
                      /\ now' = now + d
                      /\ rateLimitedRequest(c, [rec EXCEPT
                             !.url = [path |-> "/approve/transaction",
                                      query |-> ApprovalQuery(rec.src, JSNull)]])
                 [] path = "/approve/allowance" /\ ~ApprovalNeeded(allowance, rec.amount) ->
                      /\ now' = now + d
                      /\ WorkflowBuildSwap(c, rec)
                 [] OTHER ->
                      /\ d = 0
                      /\ calls' = [calls EXCEPT ![c] =
                                     [rec EXCEPT !.pc = "done",
                                                 !.result =
                                                     [ok |-> TRUE, status |-> status,
                                                      value |-> IF path = "/swap"
                                                                THEN "swap_ready"
                                                                ELSE "approval_required"]]]
                      /\ UNCHANGED <<now, lastRequest, dispatched>>
    /\ UNCHANGED <<program, input, tokensCache, tokensCacheTime>>
    /\ UNCHANGED <<protocolsCache, protocolsCacheTime, wallet, broadcast>>
    /\ UNCHANGED <<wrapperVars, proxy, otherVars>>

(***************************************************************************)
(* monitorPrice: monitor() asks for a quote, counts the check and sets a   *)
(* timer for the next one while checks < maxChecks; when the quote fails   *)
(* its catch block sets a timer of twice the interval.  (The price alert   *)
(* only logs and calls options.onPriceAlert.)                              *)
(***************************************************************************)
\* monitor() to its first await: this.getQuote(srcToken, dstToken, amount)
monitor(c, rec) ==
    rateLimitedRequest(c, [rec EXCEPT
                              !.url = [path |-> "/quote",
                                       query |-> QuoteQuery(rec.src, rec.dst, rec.amount)]])

monitorPrice(c, d, srcToken, dstToken, amount) ==
    /\ c <= MaxMonitors
    /\ AllAwaited
    /\ CanInvoke(c, d)
    /\ monitor(c, [IdleCall EXCEPT !.op = "monitorPrice", !.t0 = now',
                                   !.src = srcToken, !.dst = dstToken,
                                   !.amount = amount, !.checks = 0])
    /\ UNCHANGED <<program, input, tokensCache, tokensCacheTime>>
    /\ UNCHANGED <<protocolsCache, protocolsCacheTime, wallet, broadcast>>
    /\ UNCHANGED <<wrapperVars, proxy, otherVars>>

\* The quote request of monitor() ends.  The timers are set checkInterval (or
\* twice that) after the present time, which is not before the last reading of
\* the clock.
MonitorRespond(c, status) ==
    /\ program = "OneInchTradingApp"
    /\ calls[c].pc = "fetching"
    /\ calls[c].op = "monitorPrice"
    /\ calls' = [calls EXCEPT ![c] =
                    IF ~ResponseOk(status)
                    THEN [@ EXCEPT !.status = status, !.pc = "waiting",
                                   !.wakeAt = now + checkInterval * 2]
                    ELSE IF calls[c].checks + 1 < maxChecks
                    THEN [@ EXCEPT !.status = status, !.checks = @ + 1,
                                   !.pc = "waiting",
                                   !.wakeAt = now + checkInterval]
                    ELSE [@ EXCEPT !.status = status, !.checks = @ + 1,
                                   !.pc = "done",
                                   !.result = [ok |-> TRUE, status |-> status,
                                               value |-> "completed"]]]
    /\ UNCHANGED <<program, input, now, lastRequest, dispatched>>
    /\ UNCHANGED <<tokensCache, tokensCacheTime, protocolsCache, protocolsCacheTime>>
    /\ UNCHANGED <<wallet, broadcast, wrapperVars, proxy, otherVars>>

\* a timer of monitorPrice fires, late ms after its deadline: monitor() runs
\* (the model follows a monitor for MaxQuoteRequests requests)
MonitorTimer(c, late) ==
    /\ program = "OneInchTradingApp"
    /\ calls[c].pc = "waiting"
    /\ Len(dispatched) < MaxQuoteRequests
    /\ now' = (IF now > calls[c].wakeAt THEN now ELSE calls[c].wakeAt) + late
    /\ monitor(c, calls[c])
    /\ UNCHANGED <<program, input, tokensCache, tokensCacheTime>>
    /\ UNCHANGED <<protocolsCache, protocolsCacheTime, wallet, broadcast>>
    /\ UNCHANGED <<wrapperVars, proxy, otherVars>>

\* the time that may have passed between two reads of the clock
Elapsed == {0, requestInterval \div 2, cacheExpiry}

\* how late a timer may fire
Lateness == {0, requestInterval \div 2}

AppNext ==
    \/ \E c \in CallIds, d \in Elapsed :
           input.op = "getSupportedTokens" /\ getSupportedTokens(c, d)
    \/ \E c \in CallIds, d \in Elapsed :
           input.op = "getQuote" /\ getQuote(c, d, input.src, input.dst, input.amount)
    \/ \E c \in CallIds, d \in Elapsed :
           input.op = "buildApproval" /\ buildApproval(c, d, input.src, input.amount)
    \/ \E c \in CallIds, late \in Lateness : TimerFire(c, late)
    \/ \E c \in CallIds, s \in Statuses :
           calls[c].op \notin MultiRequestOps /\ Respond(c, s)
    \/ \E c \in CallIds, d \in Elapsed :
           input.op = "getSupportedProtocols" /\ getSupportedProtocols(c, d)
    \/ \E c \in CallIds, d \in Elapsed :
           input.op = "buildSwap"
           /\ buildSwap(c, d, input.src, input.dst, input.amount, input.from)
    \/ \E c \in CallIds :
           input.op = "executeTransaction"
           /\ executeTransaction(c, TransactionData, input.confirmExecution)
    \/ \E c \in CallIds, fulfilled \in BOOLEAN : TransactionSettles(c, fulfilled)
    \/ \E c \in CallIds, s \in Statuses, d \in Elapsed : ProtocolsRespond(c, s, d)
    \/ \E c \in CallIds, d \in Elapsed :
           input.op = "executeSwapWorkflow"
           /\ executeSwapWorkflow(c, d, input.src, input.dst, input.amount)
    \/ \E c \in CallIds, s \in Statuses, a \in Allowances, d \in Elapsed :
           WorkflowRespond(c, s, a, d)
    \/ \E c \in CallIds, d \in Elapsed :
           input.op = "monitorPrice"
           /\ monitorPrice(c, d, input.src, input.dst, input.amount)
    \/ \E c \in CallIds, s \in Statuses : MonitorRespond(c, s)
    \/ \E c \in CallIds, late \in Lateness : MonitorTimer(c, late)

(***************************************************************************)
(* handleAPIRequest(requestFn, maxRetries = 3).  requestFn either returns  *)
(* or throws an error whose status is an HTTP status, or NoStatus for an   *)
(* error without a status property (error.status is undefined, and every   *)
(* comparison with it is false).                                           *)
(***************************************************************************)
ErrorStatuses == {401, 404, 429, 500, 503, NoStatus}

RECURSIVE Pow2(_)
Pow2(k) == IF k = 0 THEN 1 ELSE 2 * Pow2(k - 1)

\* CatchBlock treating every status from 400 on as a server error to retry
CatchBlockRetryClientErrors(status, att) ==
    IF status = 429
    THEN [act |-> "wait", delay |-> Pow2(att) * 1000, name |-> ""]
    ELSE IF status >= 400 /\ att < maxRetries
    THEN [act |-> "wait", delay |-> 1000 * att, name |-> ""]
    ELSE IF status >= 400 /\ status < 500
    THEN [act |-> "throw", delay |-> 0, name |-> "Error"]
    ELSE [act |-> "continue", delay |-> 0, name |-> ""]

\* CatchBlock waiting the same second before every retry of a server error
CatchBlockFixedDelay(status, att) ==
    IF status = 429
    THEN [act |-> "wait", delay |-> Pow2(att) * 1000, name |-> ""]
    ELSE IF status = 401
    THEN [act |-> "throw", delay |-> 0, name |-> "OneInchAPIError"]
    ELSE IF status >= 500 /\ att < maxRetries
    THEN [act |-> "wait", delay |-> 1000, name |-> ""]
    ELSE IF status >= 400 /\ status < 500
    THEN [act |-> "throw", delay |-> 0, name |-> "Error"]
    ELSE [act |-> "continue", delay |-> 0, name |-> ""]

\* the catch block, for an error of this status thrown in this attempt
CatchBlock(status, att) ==
    IF status = 429
    THEN [act |-> "wait", delay |-> Pow2(att) * 1000, name |-> ""]
    ELSE IF status = 401
    THEN [act |-> "throw", delay |-> 0, name |-> "OneInchAPIError"]
    ELSE IF status >= 500 /\ att < maxRetries
    THEN [act |-> "wait", delay |-> 1000 * att, name |-> ""]
    ELSE IF status >= 400 /\ status < 500
    THEN [act |-> "throw", delay |-> 0, name |-> "Error"]
    ELSE [act |-> "continue", delay |-> 0, name |-> ""]

\* attempt++ and the loop test; after the loop, throw lastError
NextIteration ==
    /\ attempt' = attempt + 1
    /\ IF attempt + 1 <= maxRetries
       THEN /\ hpc' = "calling"
            /\ UNCHANGED hresult
       ELSE /\ hpc' = "done"
            /\ hresult' = [ok |-> FALSE, status |-> lastError', value |-> "Error"]

HStart ==
    /\ program = "handleAPIRequest"
    /\ hpc = "idle"
    /\ attempt' = 1
    /\ hpc' = IF 1 <= maxRetries THEN "calling" ELSE "done"
    /\ UNCHANGED <<program, input, lastError, hlog, hresult>>
    /\ UNCHANGED <<appVars, proxy, otherVars>>

\* requestFn returns: the wrapper returns its value
HReturn ==
    /\ program = "handleAPIRequest"
    /\ hpc = "calling"
    /\ hpc' = "done"
    /\ hlog' = Append(hlog, [kind |-> "returned", v |-> NoStatus])
    /\ hresult' = [ok |-> TRUE, status |-> NoStatus, value |-> "result"]
    /\ UNCHANGED <<program, input, attempt, lastError>>
    /\ UNCHANGED <<appVars, proxy, otherVars>>

\* requestFn throws an error of this status
HThrow(status) ==
    /\ program = "handleAPIRequest"
    /\ hpc = "calling"
    /\ lastError' = status
    /\ LET todo == CatchBlock(status, attempt)
           threw == [kind |-> "threw", v |-> status]
       IN CASE todo.act = "wait" ->
                 /\ hlog' = hlog \o <<threw, [kind |-> "wait", v |-> todo.delay]>>
                 /\ hpc' = "waiting"
                 /\ UNCHANGED <<attempt, hresult>>
            [] todo.act = "throw" ->
                 /\ hlog' = Append(hlog, threw)
                 /\ hpc' = "done"
                 /\ hresult' = [ok |-> FALSE, status |-> status, value |-> todo.name]
                 /\ UNCHANGED attempt
            [] OTHER ->
                 /\ hlog' = Append(hlog, threw)
                 /\ NextIteration
    /\ UNCHANGED <<program, input>>
    /\ UNCHANGED <<appVars, proxy, otherVars>>

\* the setTimeout of the catch block fires: continue
HTimer ==
    /\ program = "handleAPIRequest"
    /\ hpc = "waiting"
    /\ UNCHANGED <<program, input, lastError, hlog>>
    /\ NextIteration
    /\ UNCHANGED <<appVars, proxy, otherVars>>

WrapperNext ==
    \/ HStart
    \/ HReturn
    \/ \E s \in ErrorStatuses : HThrow(s)
    \/ HTimer

(***************************************************************************)
(* backend-server.js: the express routes that proxy the 1inch API.  A      *)
(* handler shares no state with another, so one request is followed at a   *)
(* time.  The incoming query string is a sequence of <<key, value>> pairs; *)
(* express parses it into req.query, where a repeated key has an array.    *)
(***************************************************************************)
ProxiedRoutes == {"/api/tokens", "/api/quote", "/api/swap", "/api/approve/allowance",
                  "/api/approve/transaction"}
Routes == ProxiedRoutes \cup {"/api/health"}

\* the path of BASE_URL the route fetches
UpstreamPath(route) ==
    CASE route = "/api/tokens" -> "/tokens"
      [] route = "/api/quote" -> "/quote"
      [] route = "/api/swap" -> "/swap"
      [] route = "/api/approve/allowance" -> "/approve/allowance"
      [] route = "/api/approve/transaction" -> "/approve/transaction"

\* the error property of the body the catch block of the route sends
FailureMessage(route) ==
    CASE route = "/api/tokens" -> "Failed to fetch tokens"
      [] route = "/api/quote" -> "Failed to get quote"
      [] route = "/api/swap" -> "Failed to build swap"
      [] route = "/api/approve/allowance" -> "Failed to check allowance"
      [] route = "/api/approve/transaction" -> "Failed to build approval"

RawQueries ==
    {<< >>,
     <<<<"src", ETH>>, <<"dst", USDC>>, <<"amount", "1000000">>>>,
     <<<<"tokenAddress", USDC>>, <<"amount", "">>>>,
     <<<<"src", ETH>>, <<"protocols", "UNISWAP_V2">>, <<"protocols", "CURVE">>>>}

\* an array of strings as a JavaScript value: n its length, s what String()
\* makes of it (the elements joined by commas)
RECURSIVE Join(_)
Join(strs) == IF Len(strs) = 1 THEN strs[1] ELSE strs[1] \o "," \o Join(Tail(strs))

JSArray(strs) == [t |-> "array", n |-> Len(strs), s |-> Join(strs)]

\* String(x), as URLSearchParams.append applies it to its value
String(x) == IF x.t \in {"string", "array"} THEN x.s ELSE DecStr(x.n)

\* the values given to the key of the i-th pair, in order
ValuesOf(raw, i) ==
    LET same == SelectSeq(raw, LAMBDA pair : pair[1] = raw[i][1])
    IN [k \in 1..Len(same) |-> same[k][2]]

\* Object.entries(req.query): one entry per key, in the order of first
\* appearance; the value is a string, or an array when the key is repeated
RECURSIVE EntriesFrom(_, _)
EntriesFrom(raw, i) ==
    IF i > Len(raw) THEN << >>
    ELSE IF \E j \in 1..(i - 1) : raw[j][1] = raw[i][1] THEN EntriesFrom(raw, i + 1)
    ELSE LET vals == ValuesOf(raw, i)
         IN <<<<raw[i][1], IF Len(vals) = 1 THEN JSString(vals[1]) ELSE JSArray(vals)>>>>
                \o EntriesFrom(raw, i + 1)

ObjectEntries(raw) == EntriesFrom(raw, 1)

\* the forEach of a route: `if (value) url.searchParams.append(key, value)'
RECURSIVE AppendParams(_)
AppendParams(entries) ==
    IF entries = << >> THEN << >>
    ELSE (IF Truthy(Head(entries)[2])
          THEN <<<<Head(entries)[1], String(Head(entries)[2])>>>>
          ELSE << >>) \o AppendParams(Tail(entries))

\* what the upstream may answer: a status and a body, which is JSON or not and
\* has a tokens property or not
UpstreamStatuses == {200, 400, 429, 500}
UpstreamBodies == {[json |-> TRUE, tokens |-> TRUE], [json |-> TRUE, tokens |-> FALSE],
                   [json |-> FALSE, tokens |-> FALSE]}
NoUpstreamBody == [json |-> FALSE, tokens |-> FALSE]

\* the response of the proxy: the upstream's body relayed, or an error object
NoResponse == [status |-> NoStatus, relayed |-> FALSE, data |-> NoUpstreamBody, error |-> ""]

IdleProxy == [pc |-> "idle", route |-> "", raw |-> << >>, url |-> [path |-> "", query |-> << >>],
              upstatus |-> NoStatus, upbody |-> NoUpstreamBody, res |-> NoResponse]

\* a request arrives at a proxied route: the handler runs to its await fetch
ProxyGet(route, raw) ==
    /\ program = "backend-server"
    /\ proxy.pc \in {"idle", "done"}
    /\ proxy' = [IdleProxy EXCEPT
                    !.pc = "fetching", !.route = route, !.raw = raw,
                    !.url = [path |-> UpstreamPath(route),
                             query |-> IF route = "/api/tokens" THEN << >>
                                       ELSE AppendParams(ObjectEntries(raw))]]
    /\ UNCHANGED <<program, input, appVars, wrapperVars, otherVars>>

\* GET /api/health answers without a fetch
ProxyHealth(raw) ==
    /\ program = "backend-server"
    /\ proxy.pc \in {"idle", "done"}
    /\ proxy' = [IdleProxy EXCEPT
                    !.pc = "done", !.route = "/api/health", !.raw = raw,
                    !.res = [NoResponse EXCEPT !.status = 200]]
    /\ UNCHANGED <<program, input, appVars, wrapperVars, otherVars>>

\* res.status(500).json({error, details}) of the catch block
CatchResponse(route) ==
    [status |-> 500, relayed |-> FALSE, data |-> NoUpstreamBody, error |-> FailureMessage(route)]

\* the upstream answers (status is TransportError when fetch rejects): the rest
\* of the handler runs, through its awaits of the body, to the response
ProxyUpstreamResponds(status, body) ==
    /\ program = "backend-server"
    /\ proxy.pc = "fetching"
    /\ status = TransportError => body = NoUpstreamBody
    /\ LET threw == \/ ~ResponseOk(status)
                    \/ ~body.json
                    \/ proxy.route = "/api/tokens" /\ ~body.tokens
       IN proxy' = [proxy EXCEPT
                       !.pc = "done", !.upstatus = status, !.upbody = body,
                       !.res = IF threw THEN CatchResponse(proxy.route)
                               ELSE [status |-> 200, relayed |-> TRUE, data |-> body,
                                     error |-> ""]]
    /\ UNCHANGED <<program, input, appVars, wrapperVars, otherVars>>

ProxyNext ==
    \/ \E route \in ProxiedRoutes, raw \in RawQueries : ProxyGet(route, raw)
    \/ \E raw \in RawQueries : ProxyHealth(raw)
    \/ \E status \in UpstreamStatuses \cup {TransportError}, body \in UpstreamBodies :
           ProxyUpstreamResponds(status, body)

(***************************************************************************)
(* RateLimitManager: execute queues a request function and returns a       *)
(* promise; processQueue, one activation at a time, starts the queued      *)
(* functions interval ms apart and settles each promise with its outcome.  *)
(***************************************************************************)
RequestIds == 1..MaxRequests

\* the constructor
RateLimitManager(rps) ==
    [interval |-> 1000 \div rps, lastRequest |-> 0, queue |-> << >>,
     processing |-> FALSE]

NoLoop == [pc |-> "none", wakeAt |-> 0, request |-> 0]
NoPromise == [state |-> "unmade", settlements |-> 0]

\* queue.shift(), lastRequest = Date.now(), and the call of requestFn, in
\* activation l of processQueue; rl is the manager as the step has left it so far
StartRequest(l, rl) ==
    /\ rateLimiter' = [rl EXCEPT !.queue = Tail(@), !.lastRequest = now']
    /\ loops' = [loops EXCEPT ![l] = [pc |-> "awaiting", wakeAt |-> 0,
                                      request |-> Head(rl.queue)]]
    /\ started' = Append(started, [request |-> Head(rl.queue), time |-> now',
                                   loop |-> l])

\* the while loop of processQueue from its test to its next await, or to the
\* return of processQueue
WhileLoop(l, rl) ==
    IF Len(rl.queue) > 0
    THEN LET timeSinceLastRequest == now' - rl.lastRequest IN
         IF timeSinceLastRequest < rl.interval
         THEN /\ rateLimiter' = rl
              /\ loops' = [loops EXCEPT ![l] =
                              [pc |-> "sleeping",
                               wakeAt |-> now' + (rl.interval - timeSinceLastRequest),
                               request |-> 0]]
              /\ UNCHANGED started
         ELSE StartRequest(l, rl)
    ELSE /\ rateLimiter' = [rl EXCEPT !.processing = FALSE]
         /\ loops' = [loops EXCEPT ![l] = NoLoop]
         /\ UNCHANGED started

\* processQueue entering its loop whether or not another activation is in it
processQueueUnguarded(l, rl) ==
    IF Len(rl.queue) = 0
    THEN /\ rateLimiter' = rl
         /\ UNCHANGED <<loops, started>>
    ELSE WhileLoop(l, [rl EXCEPT !.processing = TRUE])

processQueue(l, rl) ==
    IF rl.processing \/ Len(rl.queue) = 0
    THEN /\ rateLimiter' = rl
         /\ UNCHANGED <<loops, started>>
    ELSE WhileLoop(l, [rl EXCEPT !.processing = TRUE])

\* execute(requestFn), the r-th call of it, d ms after the last reading of the
\* clock: the executor of the promise runs at once
execute(r, d) ==
    /\ program = "RateLimitManager"
    /\ promises[r].state = "unmade"
    /\ IF r = 1 THEN d = 0 ELSE promises[r - 1].state # "unmade"
    /\ now' = now + d
    /\ promises' = [promises EXCEPT ![r].state = "pending"]
    /\ processQueue(r, [rateLimiter EXCEPT !.queue = Append(@, r)])
    /\ UNCHANGED <<program, input, clientVars, wrapperVars, proxy, api, componentVars>>

\* the setTimeout of the loop fires, late ms after its deadline (or after the
\* last reading of the clock, if that is later)
IntervalElapses(l, late) ==
    /\ program = "RateLimitManager"
    /\ loops[l].pc = "sleeping"
    /\ now' = (IF now > loops[l].wakeAt THEN now ELSE loops[l].wakeAt) + late
    /\ StartRequest(l, rateLimiter)
    /\ UNCHANGED <<program, input, clientVars, wrapperVars, proxy, api, componentVars,
                 promises>>

\* resolve(result) or reject(error): a promise keeps its first settlement
Settle(promise, fulfilled) ==
    [state |-> IF promise.state = "pending"
               THEN (IF fulfilled THEN "resolved" ELSE "rejected")
               ELSE promise.state,
     settlements |-> promise.settlements + 1]

\* RequestSettles leaving the loop when the request function has thrown
RequestSettlesBreakingOnError(l, fulfilled, d) ==
    /\ program = "RateLimitManager"
    /\ loops[l].pc = "awaiting"
    /\ now' = now + d
    /\ promises' = [promises EXCEPT ![loops[l].request] = Settle(@, fulfilled)]
    /\ IF fulfilled
       THEN WhileLoop(l, rateLimiter)
       ELSE /\ rateLimiter' = [rateLimiter EXCEPT !.processing = FALSE]
            /\ loops' = [loops EXCEPT ![l] = NoLoop]
            /\ UNCHANGED started
    /\ UNCHANGED <<program, input, clientVars, wrapperVars, proxy, api, componentVars>>

\* the request function of activation l returns or throws, d ms after the last
\* reading of the clock: its promise is settled and the loop goes on
RequestSettles(l, fulfilled, d) ==
    /\ program = "RateLimitManager"
    /\ loops[l].pc = "awaiting"
    /\ now' = now + d
    /\ promises' = [promises EXCEPT ![loops[l].request] = Settle(@, fulfilled)]
    /\ WhileLoop(l, rateLimiter)
    /\ UNCHANGED <<program, input, clientVars, wrapperVars, proxy, api, componentVars>>

LimiterNext ==
    \/ \E r \in RequestIds, d \in Elapsed : execute(r, d)
    \/ \E l \in RequestIds, late \in Lateness : IntervalElapses(l, late)
    \/ \E l \in RequestIds, fulfilled \in BOOLEAN, d \in Elapsed :
           RequestSettles(l, fulfilled, d)

(***************************************************************************)
(* OneInchAPI of the test script: getSupportedProtocols tries its paths in *)
(* turn with makeRequest, which throws when fetch rejects, when the        *)
(* response is not ok, or when its body is not JSON.                       *)
(***************************************************************************)
possiblePaths == <<"https://api.1inch.dev/swap/v6.0/1/protocols",
                   "https://api.1inch.dev/swap/v6.0/1/liquidity-sources",
                   "https://api.1inch.dev/swap/v5.0/1/protocols">>

\* requests: the urls fetched; failed: for each makeRequest that has ended,
\* whether it threw
IdleApi == [pc |-> "idle", path |-> 0, requests |-> << >>, failed |-> << >>,
            result |-> NoResult]

\* makeRequest(path) to its first await: fetch(url, { headers })
makeRequest(a, k) ==
    [a EXCEPT !.pc = "fetching", !.path = k,
              !.requests = Append(@, possiblePaths[k])]

\* the catch block of the loop giving up at the first failure
CatchAndThrow(a) ==
    [a EXCEPT !.pc = "threw", !.failed = Append(@, TRUE),
              !.result = [ok |-> FALSE, status |-> NoStatus,
                          value |-> "All protocol endpoints failed"]]

\* makeRequest has thrown: the catch block of the loop logs and continues with
\* the next path; after the last path the loop ends and the function throws
CatchAndContinue(a) ==
    IF a.path < Len(possiblePaths)
    THEN makeRequest([a EXCEPT !.failed = Append(@, TRUE)], a.path + 1)
    ELSE [a EXCEPT !.pc = "threw", !.failed = Append(@, TRUE),
                   !.result = [ok |-> FALSE, status |-> NoStatus,
                               value |-> "All protocol endpoints failed"]]

\* testProtocols calls api.getSupportedProtocols()
testProtocols ==
    /\ program = "OneInchAPI"
    /\ api.pc = "idle"
    /\ api' = makeRequest(api, 1)
    /\ UNCHANGED <<program, input, appVars, wrapperVars, proxy, limiterVars,
                   componentVars>>

\* fetch settles: it rejects, or there is a response with a status; then the
\* body is read (response.text() for the message of the error, else
\* response.json())
FetchSettles(status) ==
    /\ program = "OneInchAPI"
    /\ api.pc = "fetching"
    /\ api' = IF status = TransportError THEN CatchAndContinue(api)
              ELSE IF ~ResponseOk(status) THEN [api EXCEPT !.pc = "text"]
              ELSE [api EXCEPT !.pc = "json"]
    /\ UNCHANGED <<program, input, appVars, wrapperVars, proxy, limiterVars,
                   componentVars>>

\* the reading of the body settles: response.json() gives the result that is
\* returned, or rejects (the body is not JSON); after response.text(), read or
\* not, makeRequest throws
BodySettles(fulfilled) ==
    /\ program = "OneInchAPI"
    /\ api.pc \in {"text", "json"}
    /\ api' = IF api.pc = "json" /\ fulfilled
              THEN [api EXCEPT !.pc = "returned", !.failed = Append(@, FALSE),
                               !.result = [ok |-> TRUE, status |-> 200,
                                           value |-> <<api.path>>]]
              ELSE CatchAndContinue(api)
    /\ UNCHANGED <<program, input, appVars, wrapperVars, proxy, limiterVars,
                   componentVars>>

ApiNext ==
    \/ testProtocols
    \/ \E status \in {200} \cup FailureStatuses \cup {TransportError} :
           FetchSettles(status)
    \/ \E fulfilled \in BOOLEAN : BodySettles(fulfilled)

(***************************************************************************)
(* OneInchSwapComponent, with its tokens loaded and a wallet connected:    *)
(* the user edits the form, the debounce timer calls getQuote, the button  *)
(* calls executeSwap.  State set by a handler is in force when the next    *)
(* handler runs.                                                           *)
(***************************************************************************)
Amounts == {"", "1", "2"}
Slippages == {1, 5}
NoQuote == 0

\* Number(amount) for the text of the amount field
Number(amount) ==
    IF amount = "" THEN 0 ELSE CHOOSE k \in 0..MaxWei : DecStr(k) = amount

\* tokens[token]?.decimals || 18
Decimals(token) == IF token = USDC THEN 6 ELSE 18

\* ethers.utils.parseUnits(amount, decimals).toString(): the digits of
\* value * 10^decimals
parseUnits(amount, decimals) == [value |-> Number(amount), decimals |-> decimals]

\* the effect on getQuote: the timer of the last render is cleared and one is
\* set for the getQuote of this render (it sees this render's fields)
Debounced(cmp) ==
    [cmp EXCEPT !.timer = [pending |-> TRUE, fromToken |-> cmp.fromToken,
                           toToken |-> cmp.toToken, amount |-> cmp.amount,
                           slippage |-> cmp.slippage]]

\* the component once loadTokens has run: default tokens, the first render's timer
MountedComponent ==
    Debounced([fromToken |-> ETH, toToken |-> USDC, amount |-> "", slippage |-> 1,
               quote |-> NoQuote, loading |-> FALSE, error |-> "",
               account |-> WalletAddress, edits |-> 0,
               timer |-> [pending |-> FALSE, fromToken |-> "", toToken |-> "",
                          amount |-> "", slippage |-> 0]])

\* the user types an amount
SetAmount(value) ==
    /\ program = "OneInchSwapComponent"
    /\ component.edits < MaxEdits
    /\ value # component.amount
    /\ component' = Debounced([component EXCEPT !.amount = value, !.edits = @ + 1])
    /\ UNCHANGED <<program, input, appVars, wrapperVars, proxy, limiterVars, api,
                   quoteRequests, swapRuns>>

\* the user moves the slippage slider or clicks a preset
SetSlippage(value) ==
    /\ program = "OneInchSwapComponent"
    /\ component.edits < MaxEdits
    /\ value # component.slippage
    /\ component' = Debounced([component EXCEPT !.slippage = value, !.edits = @ + 1])
    /\ UNCHANGED <<program, input, appVars, wrapperVars, proxy, limiterVars, api,
                   quoteRequests, swapRuns>>

\* the user clicks the swap direction button
SwapDirection ==
    /\ program = "OneInchSwapComponent"
    /\ component.edits < MaxEdits
    /\ component' = Debounced([component EXCEPT !.fromToken = component.toToken,
                                                !.toToken = component.fromToken,
                                                !.quote = NoQuote, !.edits = @ + 1])
    /\ UNCHANGED <<program, input, appVars, wrapperVars, proxy, limiterVars, api,
                   quoteRequests, swapRuns>>

\* the debounce timer fires: getQuote, to its await of api.getQuote
ComponentGetQuote ==
    /\ program = "OneInchSwapComponent"
    /\ component.timer.pending
    /\ LET t == component.timer IN
       IF t.fromToken = "" \/ t.toToken = "" \/ t.amount = "" \/ Number(t.amount) <= 0
       THEN /\ component' = [component EXCEPT !.timer.pending = FALSE,
                                              !.quote = NoQuote]
            /\ UNCHANGED quoteRequests
       ELSE /\ component' = [component EXCEPT !.timer.pending = FALSE,
                                              !.loading = TRUE, !.error = ""]
            /\ quoteRequests' =
                   Append(quoteRequests,
                          [pc |-> "fetching", src |-> t.fromToken, dst |-> t.toToken,
                           amount |-> parseUnits(t.amount, Decimals(t.fromToken)),
                           slippage |-> t.slippage])
    /\ UNCHANGED <<program, input, appVars, wrapperVars, proxy, limiterVars, api,
                   swapRuns>>

\* the api.getQuote of the k-th getQuote settles: setQuote(quoteResult), or
\* the catch block; then the finally block
QuoteResponds(k, ok) ==
    /\ program = "OneInchSwapComponent"
    /\ k \in DOMAIN quoteRequests
    /\ quoteRequests[k].pc = "fetching"
    /\ quoteRequests' = [quoteRequests EXCEPT ![k].pc = "done"]
    /\ component' = IF ok
                    THEN [component EXCEPT !.quote = k, !.loading = FALSE]
                    ELSE [component EXCEPT
                             !.error = "Failed to get quote. Please check your inputs.",
                             !.quote = NoQuote, !.loading = FALSE]
    /\ UNCHANGED <<program, input, appVars, wrapperVars, proxy, limiterVars, api,
                   swapRuns>>

\* disabled={!account || !quote || loading || !amount}
SwapButtonDisabled(cmp) ==
    cmp.account = "" \/ cmp.quote = NoQuote \/ cmp.loading \/ cmp.amount = ""

\* the user clicks the swap button: executeSwap, to its first await
executeSwap ==
    /\ program = "OneInchSwapComponent"
    /\ Len(swapRuns) < MaxSwaps
    /\ ~SwapButtonDisabled(component)
    /\ component' = [component EXCEPT !.loading = TRUE, !.error = ""]
    /\ swapRuns' = Append(swapRuns,
                          [pc |-> IF component.fromToken # ETH THEN "checkAllowance"
                                  ELSE "buildSwap",
                           fromToken |-> component.fromToken])
    /\ UNCHANGED <<program, input, appVars, wrapperVars, proxy, limiterVars, api,
                   quoteRequests>>

\* the await after the one at pc, when that one is fulfilled; the allowance
\* read is enough or not
AfterAwait(pc, enough) ==
    CASE pc = "checkAllowance" -> IF enough THEN "buildSwap" ELSE "buildApproval"
      [] pc = "buildApproval" -> "approve.sendTransaction"
      [] pc = "approve.sendTransaction" -> "approveTx.wait"
      [] pc = "approveTx.wait" -> "buildSwap"
      [] pc = "buildSwap" -> "sendTransaction"
      [] pc = "sendTransaction" -> "tx.wait"
      [] OTHER -> "done"

\* an await of the i-th executeSwap settles.  After the last one the form is
\* reset; a rejection goes to the catch block; both end in the finally block.
SwapSettles(i, fulfilled, enough) ==
    /\ program = "OneInchSwapComponent"
    /\ i \in DOMAIN swapRuns
    /\ swapRuns[i].pc # "done"
    /\ enough \/ swapRuns[i].pc = "checkAllowance"
    /\ LET next == IF fulfilled THEN AfterAwait(swapRuns[i].pc, enough) ELSE "done" IN
       /\ swapRuns' = [swapRuns EXCEPT ![i].pc = next]
       /\ component' =
              IF next # "done" THEN component
              ELSE IF fulfilled
              THEN IF component.amount = ""
                   THEN [component EXCEPT !.quote = NoQuote, !.loading = FALSE]
                   ELSE Debounced([component EXCEPT !.amount = "", !.quote = NoQuote,
                                                    !.loading = FALSE])
              ELSE [component EXCEPT !.error = "Swap failed", !.loading = FALSE]
    /\ UNCHANGED <<program, input, appVars, wrapperVars, proxy, limiterVars, api,
                   quoteRequests>>

ComponentNext ==
    \/ \E value \in Amounts : SetAmount(value)
    \/ \E value \in Slippages : SetSlippage(value)
    \/ SwapDirection
    \/ ComponentGetQuote
    \/ \E k \in 1..(MaxEdits + MaxSwaps + 1), ok \in BOOLEAN : QuoteResponds(k, ok)
    \/ executeSwap
    \/ \E i \in 1..MaxSwaps, fulfilled \in BOOLEAN, enough \in BOOLEAN :
           SwapSettles(i, fulfilled, enough)

Init ==
    /\ program \in Programs
    /\ input \in (IF program = "OneInchTradingApp" THEN Inputs ELSE {NoInput})
    /\ now = StartTime
    /\ lastRequest = 0
    /\ tokensCache = << >>
    /\ tokensCacheTime = 0
    /\ protocolsCache = << >>
    /\ protocolsCacheTime = 0
    /\ wallet = ConstructWallet(input.walletPrivateKey)
    /\ broadcast = << >>
    /\ proxy = IdleProxy
    /\ calls = [c \in CallIds |-> IdleCall]
    /\ dispatched = << >>
    /\ hpc = "idle"
    /\ attempt = 0
    /\ lastError = NoStatus
    /\ hlog = << >>
    /\ hresult = NoResult
    /\ rateLimiter = RateLimitManager(requestsPerSecond)
    /\ loops = [l \in RequestIds |-> NoLoop]
    /\ promises = [r \in RequestIds |-> NoPromise]
    /\ started = << >>
    /\ api = IdleApi
    /\ component = MountedComponent
    /\ quoteRequests = << >>
    /\ swapRuns = << >>

Next == AppNext \/ WrapperNext \/ ProxyNext \/ LimiterNext \/ ApiNext \/ ComponentNext

Spec == Init /\ [][Next]_vars

\* The client with a caller that awaits each call before it makes the next: a
\* call is made only when every earlier one has returned or thrown (then no
\* other step of the client is enabled).
SequentialInit == Init /\ program = "OneInchTradingApp"

SequentialNext ==
    \/ AllAwaited /\ AppNext
    \/ \E c \in CallIds, late \in Lateness : TimerFire(c, late)
    \/ \E c \in CallIds, s \in Statuses :
           calls[c].op \notin MultiRequestOps /\ Respond(c, s)
    \/ \E c \in CallIds, s \in Statuses, d \in Elapsed : ProtocolsRespond(c, s, d)
    \/ \E c \in CallIds, fulfilled \in BOOLEAN : TransactionSettles(c, fulfilled)
    \/ \E c \in CallIds, s \in Statuses, a \in Allowances, d \in Elapsed :
           WorkflowRespond(c, s, a, d)
    \/ \E c \in CallIds, s \in Statuses : MonitorRespond(c, s)
    \/ \E c \in CallIds, late \in Lateness : MonitorTimer(c, late)

SequentialSpec == SequentialInit /\ [][SequentialNext]_vars

\* handleAPIRequest alone, with a requestFn that always settles and timers that fire
WrapperInit == Init /\ program = "handleAPIRequest"

FairSpec == WrapperInit /\ [][WrapperNext]_vars /\ WF_vars(WrapperNext)

\* the rate limiter alone, with timers that fire and request functions that
\* terminate (the caller need not make another call)
LimiterInit == Init /\ program = "RateLimitManager"

LimiterSpec ==
    /\ LimiterInit
    /\ [][LimiterNext]_vars
    /\ WF_vars(\E l \in RequestIds, late \in Lateness : IntervalElapses(l, late))
    /\ WF_vars(\E l \in RequestIds, fulfilled \in BOOLEAN, d \in Elapsed :
                   RequestSettles(l, fulfilled, d))

(***************************************************************************)
(* Properties.                                                             *)
(***************************************************************************)
\* the outbound requests made on behalf of call c
RequestsOf(c) == {k \in DOMAIN dispatched : dispatched[k].call = c}

Invoked(c) == calls[c].pc # "idle"
Returned(c) == calls[c].pc = "done" /\ calls[c].result.ok
Failed(c) == calls[c].pc = "done" /\ ~calls[c].result.ok

\* the calls issued at the same time as call c (a burst of concurrent calls)
Burst(c) == {b \in CallIds : Invoked(b) /\ calls[b].op = calls[c].op
                               /\ calls[b].t0 = calls[c].t0}

\* the place of request k among the requests of the burst of its call
RankInBurst(k) ==
    Cardinality({m \in 1..k : dispatched[m].call \in Burst(dispatched[k].call)})

\* C1: concurrent calls are paced: of N getQuote calls issued at time T, the
\* K-th request dispatched leaves no earlier than T + (K-1) * requestInterval
\* (no two outbound requests leave closer together than requestInterval).
C1_PacingGap ==
    \A k \in DOMAIN dispatched :
        dispatched[k].path = "/quote"
        => dispatched[k].time >= calls[dispatched[k].call].t0
                                    + (RankInBurst(k) - 1) * requestInterval

\* C2: two successful getSupportedTokens calls made within cacheExpiry of each
\* other issue exactly one /tokens request in total, whether the second is made
\* after the first has returned or while it is still in flight.
C2_OneRequestWithinTtl ==
    \A i, j \in CallIds :
        (/\ i < j
         /\ calls[i].op = "getSupportedTokens" /\ Returned(i)
         /\ calls[j].op = "getSupportedTokens" /\ Returned(j)
         /\ calls[j].t0 - calls[i].t0 < cacheExpiry)
        => Cardinality(RequestsOf(i) \cup RequestsOf(j)) = 1

\* C3: a cache entry whose age is at least cacheExpiry is never returned: a
\* call served from the cache found an entry younger than cacheExpiry, and a
\* successful getSupportedTokens call made at least cacheExpiry after every
\* earlier getSupportedTokens call has issued its own /tokens request (so two
\* successful calls with cacheExpiry elapsed between them issue two requests).
C3_RefreshAfterTtl ==
    /\ \A c \in CallIds : calls[c].cached => calls[c].age < cacheExpiry
    /\ \A j \in CallIds :
          (/\ calls[j].op = "getSupportedTokens" /\ Returned(j)
           /\ \A i \in CallIds :
                 (i < j /\ calls[i].op = "getSupportedTokens")
                 => calls[j].t0 - calls[i].t0 >= cacheExpiry)
          => (~calls[j].cached /\ Cardinality(RequestsOf(j)) = 1)

C3_Witness ==
    \E i, j \in CallIds :
        /\ i < j
        /\ calls[i].op = "getSupportedTokens" /\ Returned(i)
        /\ calls[j].op = "getSupportedTokens" /\ Returned(j)
        /\ calls[j].t0 - calls[i].t0 >= cacheExpiry
        /\ Cardinality(RequestsOf(i) \cup RequestsOf(j)) = 2

\* a quote request the spec calls valid: a positive amount and two different tokens
ValidQuoteRequest(srcToken, dstToken, amount) ==
    srcToken # dstToken /\ toString(amount) # "0"

\* C4: a getQuote call with amount "0" or with source = destination fails
\* before any outbound request is issued and leaves the pacing state alone.
C4_InvalidQuoteRejected ==
    \A c \in CallIds :
        (/\ calls[c].op = "getQuote" /\ Invoked(c)
         /\ ~ValidQuoteRequest(calls[c].src, calls[c].dst, calls[c].amount))
        => (Failed(c) /\ RequestsOf(c) = {})

\* C5: a getQuote call whose request is answered with HTTP 429 is retried: it
\* never ends in an error after that single attempt (so that a 200 on the
\* retry can give the caller a quote).
C5_RetriedAfter429 ==
    \A c \in CallIds :
        (calls[c].op = "getQuote" /\ Failed(c) /\ calls[c].status = 429)
        => Cardinality(RequestsOf(c)) >= 2

ClientError(status) == status >= 400 /\ status < 500 /\ status # 429

C7_DstAmountUnchanged ==
    \A c \in CallIds :
        (calls[c].op = "getQuote" /\ Returned(c))
        => (/\ calls[c].result.value.dstAmount = input.body.dstAmount
            /\ calls[c].result.value.outputAmount = input.body.dstAmount)

C7_Witness ==
    \E c \in CallIds :
        /\ calls[c].op = "getQuote" /\ Returned(c)
        /\ input.body.dstAmount = "3868650000"
        /\ calls[c].result.value.outputAmount = "3868650000"

\* C8: buildApproval(tokenAddress) without an amount issues an
\* /approve/transaction request whose query is tokenAddress alone.
C8_NoAmountOmitted ==
    \A k \in DOMAIN dispatched :
        (/\ dispatched[k].path = "/approve/transaction"
         /\ calls[dispatched[k].call].amount = JSNull)
        => dispatched[k].query = {<<"tokenAddress", calls[dispatched[k].call].src>>}

C8_Witness ==
    \E k \in DOMAIN dispatched :
        /\ dispatched[k].path = "/approve/transaction"
        /\ calls[dispatched[k].call].amount = JSNull
        /\ dispatched[k].query = {<<"tokenAddress", USDC>>}

\* the attempts of the run so far, and the delays waited
Threw == SelectSeq(hlog, LAMBDA e : e.kind = "threw")
Waits == SelectSeq(hlog, LAMBDA e : e.kind = "wait")
Attempts == SelectSeq(hlog, LAMBDA e : e.kind # "wait")
AllThrew(S) == Len(Attempts) = Len(Threw) /\ \A k \in DOMAIN Threw : Threw[k].v \in S

\* C9: when every attempt is answered with 429, handleAPIRequest waits 1 s
\* before the first retry, twice the previous wait before each further one,
\* makes at most 3 attempts and does not wait after the last of them.
C9_Backoff429 ==
    AllThrew({429})
    => (/\ \A n \in DOMAIN Waits : Waits[n].v = 1000 * Pow2(n - 1)
        /\ Len(Attempts) <= maxRetries
        /\ Len(Waits) <= maxRetries - 1)

ServerError(status) == status >= 500

\* the number of the attempt logged at place k of hlog
AttemptNo(k) == Len(SelectSeq(SubSeq(hlog, 1, k), LAMBDA e : e.kind # "wait"))

C10_Safety ==
    /\ Len(Attempts) <= maxRetries
    /\ \A k \in DOMAIN hlog :
          (hlog[k].kind = "threw" /\ ServerError(hlog[k].v))
          => IF AttemptNo(k) < maxRetries
             THEN /\ k < Len(hlog)
                  /\ hlog[k + 1] = [kind |-> "wait", v |-> 1000 * AttemptNo(k)]
             ELSE /\ k = Len(hlog)
                  /\ hpc = "done"
    /\ (hpc = "done" /\ Len(hlog) > 0 /\ AllThrew({500, 503}))
          => (/\ Len(Attempts) = maxRetries
              /\ ~hresult.ok
              /\ hresult.status = Threw[Len(Threw)].v)

C11_FailedRefreshKeepsCache ==
    [][/\ \A c \in CallIds :
             (/\ calls[c].op = "getSupportedTokens" /\ calls[c].pc = "fetching"
              /\ calls'[c].pc = "done" /\ ~ResponseOk(calls'[c].status))
             => (/\ tokensCache' = tokensCache
                 /\ tokensCacheTime' = tokensCacheTime
                 /\ ~calls'[c].result.ok
                 /\ calls'[c].result.status = calls'[c].status
                 /\ calls'[c].result.value = undefined)
       /\ (tokensCache' # tokensCache \/ tokensCacheTime' # tokensCacheTime)
             => \E c \in CallIds :
                    /\ calls[c].op = "getSupportedTokens" /\ calls[c].pc = "fetching"
                    /\ calls'[c].pc = "done" /\ ResponseOk(calls'[c].status)]_vars

\* a refresh of an expired entry has failed, with a transport error, and the
\* expired entry is still stored
C11_Witness ==
    \E c \in CallIds :
        /\ calls[c].op = "getSupportedTokens" /\ Failed(c)
        /\ calls[c].status = TransportError
        /\ RequestsOf(c) # {}
        /\ tokensCache # << >>
        /\ calls[c].t0 - tokensCacheTime >= cacheExpiry

\* C12: a getSupportedTokens or getSupportedProtocols call made when the entry
\* of its cache is present and younger than cacheExpiry returns that entry in
\* the step it is made in: no request is dispatched, no timer is set, and
\* lastRequest and the four cache fields are unchanged.
C12_FreshHitBypassesGate ==
    [][\A c \in CallIds :
          LET hitTokens == /\ calls'[c].op = "getSupportedTokens"
                           /\ tokensCache # << >>
                           /\ now' - tokensCacheTime < cacheExpiry
              hitProtocols == /\ calls'[c].op = "getSupportedProtocols"
                              /\ protocolsCache # << >>
                              /\ now' - protocolsCacheTime < cacheExpiry
          IN (calls[c].pc = "idle" /\ (hitTokens \/ hitProtocols))
             => (/\ calls'[c].pc = "done"
                 /\ calls'[c].result.ok
                 /\ calls'[c].result.value =
                        (IF hitTokens THEN tokensCache ELSE protocolsCache)
                 /\ dispatched' = dispatched
                 /\ lastRequest' = lastRequest
                 /\ <<tokensCache, tokensCacheTime>>' = <<tokensCache, tokensCacheTime>>
                 /\ <<protocolsCache, protocolsCacheTime>>'
                        = <<protocolsCache, protocolsCacheTime>>)]_vars

\* a getSupportedProtocols call has been served from the cache less than
\* requestInterval after the last request (the gate would have made it wait)
C12_Witness ==
    \E c \in CallIds :
        /\ calls[c].op = "getSupportedProtocols" /\ Returned(c)
        /\ calls[c].result.value = protocolsCache
        /\ RequestsOf(c) = {}
        /\ lastRequest > 0
        /\ calls[c].t0 - lastRequest < requestInterval

\* the calls that have missed the cache of this operation and have not yet
\* returned: each writes the entry when its request is answered with ok
Refreshing(op) == {c \in CallIds : calls[c].op = op
                                     /\ calls[c].pc \in {"sleeping", "fetching"}}

\* the stored list and the stored time were written by the same call
EntryOfOneResponse(cache, cacheTime, op) ==
    cache # << >>
    => \E c \in CallIds :
           /\ calls[c].op = op /\ Returned(c) /\ ~calls[c].cached
           /\ calls[c].result.value = cache
           /\ calls[c].t0 = cacheTime

\* C13: for each cache (token list, protocol list) at most one refresh that
\* will write the entry is in progress at any time, and the stored list and the
\* stored fetch time always come from the same response.
C13_SingleWriter ==
    /\ Cardinality(Refreshing("getSupportedTokens")) <= 1
    /\ Cardinality(Refreshing("getSupportedProtocols")) <= 1
    /\ EntryOfOneResponse(tokensCache, tokensCacheTime, "getSupportedTokens")
    /\ EntryOfOneResponse(protocolsCache, protocolsCacheTime, "getSupportedProtocols")

\* the second half of C13 alone
C13_EntryOfOneResponse ==
    /\ EntryOfOneResponse(tokensCache, tokensCacheTime, "getSupportedTokens")
    /\ EntryOfOneResponse(protocolsCache, protocolsCacheTime, "getSupportedProtocols")

\* call c has entered rateLimitedRequest (it was not served from a cache)
EnteredGate(c) == Invoked(c) /\ ~calls[c].cached /\ calls[c].url # NoUrl

\* the place in the dispatch order of the first request of call c
FirstRequest(c) == CHOOSE k \in RequestsOf(c) : \A m \in RequestsOf(c) : k <= m

\* C14: requests are dispatched in the order in which the operations entered
\* rateLimitedRequest (calls are made in the order of their ids): when the
\* request of a call has been dispatched, so has the request of every call
\* that entered the gate before it, and earlier.
C14_DispatchFifo ==
    \A a, b \in CallIds :
        (a < b /\ EnteredGate(a) /\ RequestsOf(b) # {})
        => (RequestsOf(a) # {} /\ FirstRequest(a) < FirstRequest(b))

\* every request made on behalf of call c has failed: the call has made
\* requests and has ended after a failure (getSupportedProtocols goes on to the
\* next endpoint after a failure, and ends after one only when the last has failed)
AllRequestsFailed(c) ==
    calls[c].pc = "done" /\ RequestsOf(c) # {} /\ ~ResponseOk(calls[c].status)

\* C15: no operation swallows a failure: a call all of whose outbound requests
\* have failed gives its caller an error, never a success value.
C15_NoFailureSwallowed ==
    \A c \in CallIds : AllRequestsFailed(c) => ~calls[c].result.ok

\* the upstream has answered the fetch of the request the proxy is done with
UpstreamAnswered ==
    /\ proxy.pc = "done"
    /\ proxy.route \in ProxiedRoutes
    /\ proxy.upstatus # TransportError

\* C16: for each proxied route, the status and the JSON body the proxy sends
\* to its client are the status and the body the upstream returned, for ok
\* responses and for others alike.
C16_StatusAndBodyRelayed ==
    (UpstreamAnswered /\ proxy.upbody.json)
    => (/\ proxy.res.status = proxy.upstatus
        /\ proxy.res.relayed
        /\ proxy.res.data = proxy.upbody)

\* the pairs of a sequence of pairs
Pairs(seq) == {seq[i] : i \in DOMAIN seq}

\* C17: for each proxied route, the query parameters sent upstream are those
\* of the incoming request, the same keys with the same values: none is
\* dropped (a parameter with an empty value included), altered or added.
C17_QueryForwardedVerbatim ==
    (proxy.pc \in {"fetching", "done"} /\ proxy.route \in ProxiedRoutes)
    => Pairs(proxy.url.query) = Pairs(proxy.raw)

\* C18: the client never holds a private key and never signs or broadcasts a
\* transaction: its wallet field is null and nothing has been handed to
\* wallet.sendTransaction.
C18_NoKeyNoSigning ==
    /\ wallet = JSNull
    /\ broadcast = << >>

\* an address: a string of 0x and 40 hexadecimal digits (the digits are not
\* looked at: every string of that length the model uses is an address)
WellFormedAddress(x) == x.t = "string" /\ Len(x.s) = 42

\* C19: a buildSwap call whose fromAddress is missing or malformed fails
\* locally: it ends with an error in the step it is made in, no request is
\* issued on its behalf and lastRequest is not written.
C19_BadFromAddressRejected ==
    [][\A c \in CallIds :
          (/\ calls[c].pc = "idle"
           /\ calls'[c].op = "buildSwap"
           /\ ~WellFormedAddress(calls'[c].from))
          => (/\ calls'[c].pc = "done"
              /\ ~calls'[c].result.ok
              /\ dispatched' = dispatched
              /\ lastRequest' = lastRequest)]_vars

\* the part of C19 that holds: a missing (null, undefined or empty) fromAddress
C19_MissingFromAddressRejected ==
    [][\A c \in CallIds :
          (/\ calls[c].pc = "idle"
           /\ calls'[c].op = "buildSwap"
           /\ ~Truthy(calls'[c].from))
          => (/\ calls'[c].pc = "done"
              /\ ~calls'[c].result.ok
              /\ dispatched' = dispatched
              /\ lastRequest' = lastRequest)]_vars

\* C20: when each operation is awaited before the next is started, every
\* request is dispatched at least requestInterval after the previous one, and
\* lastRequest is the time of the last dispatch from the moment of that
\* dispatch on (while the response is awaited, and whatever the response is):
\* the wait of the next request is counted from the dispatch.
C20_SequentialPacing ==
    /\ \A k \in DOMAIN dispatched :
          k > 1 => dispatched[k].time - dispatched[k - 1].time >= requestInterval
    /\ dispatched # << >> => lastRequest = dispatched[Len(dispatched)].time
    /\ \A c \in CallIds :
          calls[c].pc = "sleeping" => calls[c].wakeAt = lastRequest + requestInterval

\* a request has left exactly requestInterval after the previous one, whose
\* response was a failure, and its own response has not arrived yet
C20_Witness ==
    \E k \in DOMAIN dispatched :
        /\ k > 1
        /\ dispatched[k].time - dispatched[k - 1].time = requestInterval
        /\ dispatched[k].call # dispatched[k - 1].call
        /\ Failed(dispatched[k - 1].call)
        /\ calls[dispatched[k].call].pc = "fetching"
        /\ lastRequest = dispatched[k].time

(***************************************************************************)
(* RateLimitManager.                                                       *)
(***************************************************************************)
ActiveLoops == {l \in RequestIds : loops[l].pc # "none"}

\* the requests whose function has been called and has not yet returned or thrown
InFlight ==
    {r \in RequestIds : /\ \E k \in DOMAIN started : started[k].request = r
                        /\ promises[r].settlements = 0}

\* C21: whatever calls of execute overlap, at most one activation of
\* processQueue is in its loop, at most one request function is in flight, and
\* two consecutive request functions are started at least interval ms apart.
C21_OneLoopPacedStarts ==
    /\ Cardinality(ActiveLoops) <= 1
    /\ Cardinality(InFlight) <= 1
    /\ \A k \in 2..Len(started) :
           started[k].time - started[k - 1].time >= rateLimiter.interval

\* three calls of execute overlap: the second request is in flight, exactly
\* interval ms after the first was started, and the third waits in the queue
C21_Witness ==
    /\ Len(started) = 2
    /\ started[2].time - started[1].time = rateLimiter.interval
    /\ InFlight = {2}
    /\ rateLimiter.queue = <<3>>
    /\ rateLimiter.processing

\* the request function of r has been called
Started(r) == \E k \in DOMAIN started : started[k].request = r

\* C22: with request functions that terminate and timers that fire, every
\* request handed to execute is started and its promise is settled, by exactly
\* one call of resolve or reject; a request that throws does not keep the later
\* ones from being started, and a queued request always has an activation of
\* processQueue that will reach it.
C22_EveryRequestSettledOnce ==
    /\ [](\A r \in RequestIds : promises[r].settlements <= 1)
    /\ [](Len(rateLimiter.queue) > 0 => ActiveLoops # {})
    /\ \A r \in RequestIds :
           (promises[r].state = "pending")
               ~> (/\ Started(r)
                   /\ promises[r].state \in {"resolved", "rejected"}
                   /\ promises[r].settlements = 1)

\* the first request was rejected; the second, queued while the first was in
\* flight, was started by the same activation and resolved; the third, handed
\* over after that activation had returned, was started by its own and resolved
C22_Witness ==
    /\ promises[1] = [state |-> "rejected", settlements |-> 1]
    /\ promises[2] = [state |-> "resolved", settlements |-> 1]
    /\ promises[3] = [state |-> "resolved", settlements |-> 1]
    /\ Len(started) = 3
    /\ started[2].loop = 1
    /\ started[3].loop = 3

(***************************************************************************)
(* OneInchAPI.getSupportedProtocols of the test script.                    *)
(***************************************************************************)
\* C23: getSupportedProtocols requests its paths in the listed order, one
\* request each; it returns the result of the first path whose makeRequest
\* succeeds, with no request to a later path, and it throws 'All protocol
\* endpoints failed' exactly when the makeRequest of every path has failed.
C23_FirstSuccessWins ==
    /\ Len(api.requests) <= Len(possiblePaths)
    /\ \A k \in DOMAIN api.requests : api.requests[k] = possiblePaths[k]
    /\ \A k \in DOMAIN api.failed :
           k < Len(api.requests) => api.failed[k]
    /\ api.pc = "returned" =>
           /\ api.result.ok
           /\ api.result.value = <<Len(api.requests)>>
           /\ Len(api.failed) = Len(api.requests)
           /\ ~api.failed[Len(api.failed)]
    /\ (api.pc = "threw") <=>
           (/\ Len(api.failed) = Len(possiblePaths)
            /\ \A k \in DOMAIN api.failed : api.failed[k])
    /\ api.pc = "threw" =>
           api.result = [ok |-> FALSE, status |-> NoStatus,
                         value |-> "All protocol endpoints failed"]

\* the first path has failed, the second has answered, the third is not contacted
C23_Witness ==
    /\ api.pc = "returned"
    /\ api.failed = <<TRUE, FALSE>>
    /\ Len(api.requests) = 2
    /\ api.result.value = <<2>>

(***************************************************************************)
(* executeSwapWorkflow and executeTransaction.                             *)
(***************************************************************************)
\* call c has sent a request to path
Requested(c, path) ==
    \E k \in DOMAIN dispatched : dispatched[k].call = c /\ dispatched[k].path = path

\* C24: a run of executeSwapWorkflow requests /swap only after its quote
\* request has succeeded and, when the source token is not ETH, after its
\* allowance check has reported an allowance of at least the amount; when the
\* allowance is lower the run ends with type 'approval_required' (or throws)
\* and never requests /swap.
C24_SwapAfterQuoteAndAllowance ==
    \A c \in CallIds :
        calls[c].op = "executeSwapWorkflow" =>
            LET steps == calls[c].steps IN
            /\ Requested(c, "/swap") =>
                   /\ Len(steps) >= 1
                   /\ steps[1].path = "/quote"
                   /\ ResponseOk(steps[1].status)
                   /\ calls[c].src # ETH =>
                          /\ Len(steps) >= 2
                          /\ steps[2].path = "/approve/allowance"
                          /\ ResponseOk(steps[2].status)
                          /\ BigInt(steps[2].allowance) >= BigInt(calls[c].amount)
            /\ (\E k \in DOMAIN steps :
                    /\ steps[k].path = "/approve/allowance"
                    /\ ResponseOk(steps[k].status)
                    /\ BigInt(steps[k].allowance) < BigInt(calls[c].amount)) =>
                   /\ ~Requested(c, "/swap")
                   /\ calls[c].pc = "done" /\ calls[c].result.ok =>
                          calls[c].result.value = "approval_required"

\* a run for USDC whose allowance of 10 covers the amount of 10 has requested
\* /swap and returned
C24_Witness ==
    \E c \in CallIds :
        /\ calls[c].op = "executeSwapWorkflow"
        /\ calls[c].src = USDC
        /\ Len(calls[c].steps) = 3
        /\ calls[c].steps[2].allowance = JSString("10")
        /\ Requested(c, "/swap")
        /\ calls[c].pc = "done"
        /\ calls[c].result.ok
        /\ calls[c].result.value = "swap_ready"

\* call c has handed a transaction to wallet.sendTransaction
Sent(c) == \E k \in DOMAIN broadcast : broadcast[k].call = c

\* C25: executeTransaction calls wallet.sendTransaction only when
\* options.confirmExecution is set, and otherwise returns a simulation and
\* sends nothing; without a wallet executeTransaction and executeSwapWorkflow
\* throw before any request or transaction has gone out.
C25_NoSendWithoutConfirmation ==
    /\ \A k \in DOMAIN broadcast :
           /\ calls[broadcast[k].call].op = "executeTransaction"
           /\ input.confirmExecution
    /\ \A c \in CallIds :
           calls[c].op = "executeTransaction" /\ Truthy(wallet)
                /\ ~input.confirmExecution =>
               /\ calls[c].pc = "done"
               /\ calls[c].result.ok
               /\ calls[c].result.value = "simulated"
               /\ ~Sent(c)
    /\ \A c \in CallIds :
           calls[c].op \in {"executeTransaction", "executeSwapWorkflow"}
                /\ ~Truthy(wallet) =>
               /\ calls[c].pc = "done"
               /\ ~calls[c].result.ok
               /\ calls[c].result.value = "Wallet is required for executing transactions"
               /\ ~Sent(c)
               /\ \A k \in DOMAIN dispatched : dispatched[k].call # c

\* a client with a wallet has run executeTransaction without confirmExecution:
\* the call has returned the simulation and nothing was sent
C25_Witness ==
    /\ Truthy(wallet)
    /\ ~input.confirmExecution
    /\ calls[1].op = "executeTransaction"
    /\ calls[1].pc = "done"
    /\ calls[1].result.value = "simulated"
    /\ broadcast = << >>

(***************************************************************************)
(* The token cache under overlapping refreshes.                            *)
(***************************************************************************)
\* C26: whatever getSupportedTokens calls overlap, tokensCacheTime never
\* decreases, and the cached token list is never replaced by the response of a
\* request that was started before the request whose response is cached (the
\* cached list is <<k>> for the response of the k-th request dispatched).
C26_CacheNeverGoesBack ==
    [][/\ tokensCacheTime' >= tokensCacheTime
       /\ (tokensCache # << >> /\ tokensCache' # tokensCache) =>
              tokensCache'[1] > tokensCache[1]]_vars

(***************************************************************************)
(* monitorPrice.                                                           *)
(***************************************************************************)
\* the quote requests call c has made
QuoteRequestsOf(c) == {k \in DOMAIN dispatched : dispatched[k].call = c}

\* C27: monitorPrice makes at most maxChecks quote requests in all, whether
\* or not checks fail.
C27_AtMostMaxChecksRequests ==
    \A c \in CallIds :
        calls[c].op = "monitorPrice" => Cardinality(QuoteRequestsOf(c)) <= maxChecks

(***************************************************************************)
(* OneInchSwapComponent.                                                   *)
(***************************************************************************)
\* C28: whenever no quote request is in flight and no debounce timer is
\* pending, a displayed quote (quote is not null) is the response to a request
\* made with the current fromToken, toToken, amount and slippage.
C28_DisplayedQuoteIsCurrent ==
    (/\ ~component.timer.pending
     /\ \A k \in DOMAIN quoteRequests : quoteRequests[k].pc = "done"
     /\ component.quote # NoQuote) =>
        LET request == quoteRequests[component.quote] IN
        /\ request.src = component.fromToken
        /\ request.dst = component.toToken
        /\ request.amount = parseUnits(component.amount, Decimals(component.fromToken))
        /\ request.slippage = component.slippage

\* the activations of executeSwap between setLoading(true) and the finally block
SwapsInProgress == {i \in DOMAIN swapRuns : swapRuns[i].pc # "done"}

\* C29: while an executeSwap is in progress loading is true (the swap button
\* is disabled), and no second executeSwap is in progress with it.
C29_LoadingWhileSwapping ==
    /\ SwapsInProgress # {} => component.loading
    /\ Cardinality(SwapsInProgress) <= 1

(***************************************************************************)
(* buildApproval with an amount.                                           *)
(***************************************************************************)
\* C30: every /approve/transaction request of a buildApproval call that was
\* given an amount, a zero amount included, carries that amount: the amount
\* parameter is left out only when no amount was passed.
C30_GivenAmountIsSent ==
    \A k \in DOMAIN dispatched :
        LET c == dispatched[k].call IN
        (/\ dispatched[k].path = "/approve/transaction"
         /\ calls[c].op = "buildApproval"
         /\ calls[c].amount # JSNull)
        => <<"amount", toString(calls[c].amount)>> \in dispatched[k].query

====
